---- MODULE Spec2Model ----
(***************************************************************************)
(* FastAPI-Async-Demo: the request handlers of app/main.py and the helpers *)
(* of app/utils.py, run by one asyncio event loop (the cooperative worker) *)
(* plus the framework's thread pool, over a logical clock in whole seconds *)
(* with scheduling overhead taken as zero.                                 *)
(***************************************************************************)
EXTENDS Integers, Sequences, FiniteSets, TLC

VARIABLES now, reqs, loopBusy, users, sessions

vars == <<now, reqs, loopBusy, users, sessions>>

(* ------------------------------ bounds --------------------------------- *)
MaxReqs == 2
MaxSeconds == 2
MaxTime == 4
CpuWork == 2
MaxFetchReqs == 1
MaxFetchTime == 5

(* ------------------------- program constants --------------------------- *)
PerfOpSeconds == 1
PerfNumOps == 3
FetchTimeout == 5

Reqs == 1..MaxReqs
FetchReqs == 1..MaxFetchReqs

Urls == <<"posts/1", "comments/1", "albums/1">>

PerfDurations == [i \in 1..PerfNumOps |-> PerfOpSeconds]

(* --------------------------- pure helpers ------------------------------ *)
RECURSIVE SeqSum(_)
SeqSum(s) == IF s = <<>> THEN 0 ELSE Head(s) + SeqSum(Tail(s))

RECURSIVE SeqMax(_)
SeqMax(s) == IF s = <<>> THEN 0
             ELSE LET m == SeqMax(Tail(s)) IN IF Head(s) > m THEN Head(s) ELSE m

None == [id |-> 0]

IdleReq == [kind |-> "idle", pc |-> "idle", sec |-> 0, t0 |-> 0, t_end |-> 0,
            ops |-> <<>>, results |-> <<>>, total_time |-> 0,
            bg |-> "none", progress |-> 0,
            email |-> "", name |-> "", status |-> 0, result |-> None]

NewOp(d) == [st |-> "new", arg |-> d, t_start |-> 0, t_end |-> 0,
             val |-> <<>>, rank |-> 0]

(* How the framework runs a path operation: a coroutine function runs on   *)
(* the event loop, a plain function is handed to the thread pool.          *)
(* variant: every handler, sync_delay included, declared async def *)
AsyncDefAll(kind) == TRUE

IsCoroutineFunction(kind) == kind # "sync_delay"

RunsOn(kind) == IF IsCoroutineFunction(kind) THEN "loop" ELSE "thread"

(* BackgroundTasks runs simulate_cpu_intensive_task, a plain function, in  *)
(* the thread pool; a coroutine function would run on the event loop.      *)
(* variant: the background task run on the event loop *)
BackgroundOnLoop == "loop"

BackgroundRunsOn == "thread"

LoopFree == loopBusy = 0

(* simulate_slow_io_operation up to its await asyncio.sleep(seconds) *)
StartSleep(op, t) == [op EXCEPT !.st = "waiting", !.t_start = t]

SleepDue(op) == op.t_start + op.arg

(* simulate_slow_io_operation after the sleep: the returned string *)
FinishSleep(op, t, k) ==
    [op EXCEPT !.st = "done", !.t_end = t, !.rank = k,
               !.val = <<"Result after", op.arg, "seconds">>]

NumDone(ops) == Cardinality({i \in DOMAIN ops : ops[i].st \in {"done", "raised"}})

(* asyncio.gather: one task per awaitable, all started at once *)
GatherStart(durs, t) == [i \in DOMAIN durs |-> StartSleep(NewOp(durs[i]), t)]

(* the first await of performance_sync: only the first operation exists *)
(* variant: every operation started at the first await *)
SequentialStartAll(durs, t) == [i \in DOMAIN durs |-> StartSleep(NewOp(durs[i]), t)]

SequentialStart(durs, t) ==
    [i \in DOMAIN durs |-> IF i = 1 THEN StartSleep(NewOp(durs[i]), t)
                           ELSE NewOp(durs[i])]

(* asyncio.gather's result list *)
(* variant: results listed in order of completion *)
GatherByCompletion(ops) ==
    [k \in DOMAIN ops |-> (CHOOSE i \in DOMAIN ops : ops[i].rank = k)]

GatherOrder(ops) == [i \in DOMAIN ops |-> i]

GatherResults(ops) == [k \in DOMAIN ops |-> ops[GatherOrder(ops)[k]].val]

(* ------------------------- fetch_external_api -------------------------- *)
(* what the network does to one GET: a response with a JSON body, a        *)
(* response whose body is not JSON, a connection error, or no response     *)
(* before the timeout                                                      *)
Outcomes == {"json", "not_json", "connect_error", "timeout"}

(* the exception client.get or response.json raises for each outcome *)
ExceptionOf(outcome) ==
    CASE outcome = "not_json" -> "JSONDecodeError"
      [] outcome = "connect_error" -> "ConnectError"
      [] outcome = "timeout" -> "ReadTimeout"
      [] OTHER -> "none"

(* the except clause of fetch_external_api *)
(* variant: only transport errors caught *)
CaughtHttpOnly(exc) == exc \in {"ConnectError", "ReadTimeout"}

Caught(exc) == exc \in {"JSONDecodeError", "ConnectError", "ReadTimeout"}

(* fetch_external_api from the point where the GET has ended with outcome: *)
(* the finished operation, k being its place in the order of completion    *)
fetch_external_api(op, outcome, k) ==
    LET exc == ExceptionOf(outcome) IN
    IF exc = "none"
    THEN [op EXCEPT !.st = "done", !.rank = k,
                    !.val = [tag |-> "data", body |-> op.arg]]
    ELSE IF Caught(exc)
         THEN [op EXCEPT !.st = "done", !.rank = k,
                         !.val = [tag |-> "error", body |-> exc]]
         ELSE [op EXCEPT !.st = "raised", !.rank = k,
                         !.val = [tag |-> "exception", body |-> exc]]

FetchDeadline(op) == op.t_start + FetchTimeout

OpDue(kind, op) ==
    IF kind \in {"fetch_external_data", "get_user_with_external_data"}
    THEN FetchDeadline(op) ELSE SleepDue(op)

(* ---------------------------- Record Store ----------------------------- *)
Emails == {"a@example.com", "missing@example.com"}

Names == {"none", "Ann"}

MultipleResultsFound == [id |-> -1]

(* the rows of table users that the select of get_user_by_email matches,   *)
(* through scalar_one_or_none                                              *)
(* variant: the where clause dropped *)
AnyUser(rows, email) ==
    IF rows = {} THEN None ELSE CHOOSE u \in rows : TRUE

get_user_by_email(rows, email) ==
    LET m == {u \in rows : u.email = email} IN
    IF m = {} THEN None
    ELSE IF Cardinality(m) = 1 THEN CHOOSE u \in m : TRUE
    ELSE MultipleResultsFound

(* "if existing_user:" in the create_user handler *)
(* variant: the result of the check ignored *)
NeverRegistered(existing) == FALSE

AlreadyRegistered(existing) == existing # None

(* the generated primary key of a new row *)
NextId(rows) ==
    IF rows = {} THEN 1
    ELSE (CHOOSE m \in {u.id : u \in rows} : \A u \in rows : u.id <= m) + 1

(* the uniqueness constraint on users.email, checked when the INSERT is    *)
(* flushed by db.commit()                                                  *)
(* variant: no constraint *)
NoUniqueConstraint(rows, email) == FALSE

UniqueViolation(rows, email) == \E u \in rows : u.email = email

(* the column default of users.is_active *)
IsActiveDefault == TRUE

(* the models.User row that the INSERT writes *)
NewUser(rows, email, name) ==
    [id |-> NextId(rows), email |-> email, full_name |-> name,
     is_active |-> IsActiveDefault]

(* get_async_db: the session opened for request r, and its release when    *)
(* the request ends, normally or with an exception                         *)
get_async_db_enter(ss, r) == ss \cup {r}

(* variant: the session closed on normal return only *)
ExitLeaksOnError(ss, r, raised) == IF raised THEN ss ELSE ss \ {r}

get_async_db_exit(ss, r, raised) == ss \ {r}

(* ------------------------------ Init ----------------------------------- *)
Init ==
    /\ now = 0
    /\ reqs = [r \in Reqs |-> IdleReq]
    /\ loopBusy = 0
    /\ users = {}
    /\ sessions = {}

(* ----------------------------- requests -------------------------------- *)
(* requests in flight are numbered by the lowest free slot *)
FreeSlot(r) ==
    /\ reqs[r].pc = "idle"
    /\ \A q \in Reqs : q < r => reqs[q].pc # "idle"

(* a client issues a request; the server queues it for its handler *)
Arrive(r, kind, s) ==
    /\ FreeSlot(r)
    /\ reqs' = [reqs EXCEPT ![r] = [IdleReq EXCEPT !.kind = kind, !.pc = "pending",
                                                   !.sec = s]]
    /\ UNCHANGED <<now, loopBusy, users, sessions>>

ArriveStore(r, kind, email, name) ==
    /\ FreeSlot(r)
    /\ reqs' = [reqs EXCEPT ![r] = [IdleReq EXCEPT !.kind = kind, !.pc = "pending",
                                                   !.email = email, !.name = name]]
    /\ UNCHANGED <<now, loopBusy, users, sessions>>

CanStart(r, kind) ==
    /\ reqs[r].pc = "pending"
    /\ reqs[r].kind = kind
    /\ (RunsOn(kind) = "loop" => LoopFree)

async_delay(r) ==
    /\ CanStart(r, "async_delay")
    /\ reqs' = [reqs EXCEPT ![r].pc = "awaiting", ![r].t0 = now,
                            ![r].ops = <<StartSleep(NewOp(reqs[r].sec), now)>>]
    /\ UNCHANGED <<now, loopBusy, users, sessions>>

sync_delay(r) ==
    /\ CanStart(r, "sync_delay")
    /\ reqs' = [reqs EXCEPT ![r].pc = "sleeping", ![r].t0 = now]
    /\ loopBusy' = IF RunsOn("sync_delay") = "loop" THEN r ELSE loopBusy
    /\ UNCHANGED <<now, users, sessions>>

(* time.sleep(seconds) returns; the handler returns its message *)
sync_delay_return(r) ==
    /\ reqs[r].kind = "sync_delay"
    /\ reqs[r].pc = "sleeping"
    /\ now >= reqs[r].t0 + reqs[r].sec
    /\ reqs' = [reqs EXCEPT ![r].pc = "done", ![r].t_end = now, ![r].status = 200]
    /\ loopBusy' = IF loopBusy = r THEN 0 ELSE loopBusy
    /\ UNCHANGED <<now, users, sessions>>

process_data(r) ==
    /\ CanStart(r, "process_data")
    /\ reqs' = [reqs EXCEPT ![r].pc = "done", ![r].t0 = now, ![r].t_end = now,
                            ![r].status = 200, ![r].bg = "queued"]
    /\ UNCHANGED <<now, loopBusy, users, sessions>>

(* the queued background task starts once the response has been sent *)
background_start(r) ==
    /\ reqs[r].bg = "queued"
    /\ reqs[r].pc = "done"
    /\ (BackgroundRunsOn = "loop" => LoopFree)
    /\ reqs' = [reqs EXCEPT ![r].bg = "running"]
    /\ loopBusy' = IF BackgroundRunsOn = "loop" THEN r ELSE loopBusy
    /\ UNCHANGED <<now, users, sessions>>

(* one slice of the loop of simulate_cpu_intensive_task *)
simulate_cpu_intensive_task(r) ==
    /\ reqs[r].bg = "running"
    /\ reqs[r].progress < CpuWork
    /\ LET p == reqs[r].progress + 1 IN
        /\ reqs' = [reqs EXCEPT ![r].progress = p,
                                ![r].bg = IF p = CpuWork THEN "finished" ELSE "running"]
        /\ loopBusy' = IF p = CpuWork /\ loopBusy = r THEN 0 ELSE loopBusy
    /\ UNCHANGED <<now, users, sessions>>

performance_async(r) ==
    /\ CanStart(r, "performance_async")
    /\ reqs' = [reqs EXCEPT ![r].pc = "gathering", ![r].t0 = now,
                            ![r].ops = GatherStart(PerfDurations, now)]
    /\ UNCHANGED <<now, loopBusy, users, sessions>>

performance_sync(r) ==
    /\ CanStart(r, "performance_sync")
    /\ reqs' = [reqs EXCEPT ![r].pc = "awaiting", ![r].t0 = now,
                            ![r].ops = SequentialStart(PerfDurations, now)]
    /\ UNCHANGED <<now, loopBusy, users, sessions>>

fetch_external_data(r) ==
    /\ CanStart(r, "fetch_external_data")
    /\ reqs' = [reqs EXCEPT ![r].pc = "gathering", ![r].t0 = now,
                            ![r].ops = GatherStart(Urls, now)]
    /\ UNCHANGED <<now, loopBusy, users, sessions>>

(* await asyncio.gather(...) with the operation list ops: the first        *)
(* exception is raised into the handler, otherwise the handler waits for   *)
(* every operation and returns the result list                             *)
GatherResume(q, ops, t) ==
    IF \E i \in DOMAIN ops : ops[i].st = "raised"
    THEN [q EXCEPT !.ops = ops, !.pc = "failed", !.t_end = t, !.status = 500]
    ELSE IF NumDone(ops) = Len(ops)
         THEN [q EXCEPT !.ops = ops, !.pc = "done", !.t_end = t, !.status = 200,
                        !.results = GatherResults(ops),
                        !.total_time = IF q.kind = "performance_async"
                                       THEN t - q.t0 ELSE 0]
         ELSE [q EXCEPT !.ops = ops]

(* what the handler of request q does when its operation i has returned:   *)
(* ops is the operation list with operation i already finished             *)
Resume(q, ops, i, t) ==
    CASE q.kind = "async_delay" ->
            [q EXCEPT !.ops = ops, !.pc = "done", !.t_end = t, !.status = 200,
                      !.results = <<ops[1].val>>]
      [] q.kind \in {"performance_async", "fetch_external_data"} ->
            GatherResume(q, ops, t)
      [] q.kind = "performance_sync" ->
            IF i = Len(ops)
            THEN [q EXCEPT !.ops = ops, !.pc = "done", !.t_end = t, !.status = 200,
                           !.results = [k \in DOMAIN ops |-> ops[k].val],
                           !.total_time = t - q.t0]
            ELSE [q EXCEPT !.ops = [ops EXCEPT ![i + 1] = StartSleep(@, t)]]

(* asyncio.sleep expires: simulate_slow_io_operation i of request r        *)
(* finishes and the awaiting handler runs on to its next suspension        *)
simulate_slow_io_operation(r, i) ==
    /\ LoopFree
    /\ reqs[r].kind \in {"async_delay", "performance_async", "performance_sync"}
    /\ reqs[r].pc \in {"awaiting", "gathering"}
    /\ i \in DOMAIN reqs[r].ops
    /\ reqs[r].ops[i].st = "waiting"
    /\ now >= SleepDue(reqs[r].ops[i])
    /\ LET ops == [reqs[r].ops EXCEPT
                     ![i] = FinishSleep(@, now, NumDone(reqs[r].ops) + 1)]
       IN reqs' = [reqs EXCEPT ![r] = Resume(reqs[r], ops, i, now)]
    /\ UNCHANGED <<now, loopBusy, users, sessions>>

(* the GET of fetch i of request r ends: fetch_external_api returns (or    *)
(* raises) and the gather of fetch_external_data goes on                   *)
fetch_complete(r, i, outcome) ==
    /\ LoopFree
    /\ reqs[r].kind = "fetch_external_data"
    /\ reqs[r].pc = "gathering"
    /\ i \in DOMAIN reqs[r].ops
    /\ reqs[r].ops[i].st = "waiting"
    /\ (outcome = "timeout") = (now >= FetchDeadline(reqs[r].ops[i]))
    /\ LET ops == [reqs[r].ops EXCEPT
                     ![i] = fetch_external_api(@, outcome, NumDone(reqs[r].ops) + 1)]
       IN reqs' = [reqs EXCEPT ![r] = Resume(reqs[r], ops, i, now)]
    /\ UNCHANGED <<now, loopBusy, users, sessions>>

(* ------------------------ Record Store handlers ------------------------ *)
(* the end of a store request: the response (or the exception), and the    *)
(* release of the session by get_async_db                                  *)
Finish(r, status, result) ==
    /\ reqs' = [reqs EXCEPT ![r].pc = "done", ![r].status = status,
                            ![r].result = result]
    /\ sessions' = get_async_db_exit(sessions, r, status # 200)

get_user(r) ==
    /\ CanStart(r, "get_user")
    /\ reqs' = [reqs EXCEPT ![r].pc = "querying"]
    /\ sessions' = get_async_db_enter(sessions, r)
    /\ UNCHANGED <<now, loopBusy, users>>

get_user_result(r) ==
    /\ reqs[r].kind = "get_user"
    /\ reqs[r].pc = "querying"
    /\ LET user == get_user_by_email(users, reqs[r].email) IN
         IF user = MultipleResultsFound THEN Finish(r, 500, None)
         ELSE IF user = None THEN Finish(r, 404, None)
         ELSE Finish(r, 200, user)
    /\ UNCHANGED <<now, loopBusy, users>>

create_user(r) ==
    /\ CanStart(r, "create_user")
    /\ reqs' = [reqs EXCEPT ![r].pc = "checking"]
    /\ sessions' = get_async_db_enter(sessions, r)
    /\ UNCHANGED <<now, loopBusy, users>>

(* the existence check returns: 400, or on to utils.create_user *)
create_user_checked(r) ==
    /\ reqs[r].kind = "create_user"
    /\ reqs[r].pc = "checking"
    /\ LET existing == get_user_by_email(users, reqs[r].email) IN
         IF existing = MultipleResultsFound THEN Finish(r, 500, None)
         ELSE IF AlreadyRegistered(existing) THEN Finish(r, 400, None)
         ELSE /\ reqs' = [reqs EXCEPT ![r].pc = "committing"]
              /\ UNCHANGED sessions
    /\ UNCHANGED <<now, loopBusy, users>>

(* db.add(db_user); await db.commit() *)
create_user_commit(r) ==
    /\ reqs[r].kind = "create_user"
    /\ reqs[r].pc = "committing"
    /\ IF UniqueViolation(users, reqs[r].email)
       THEN /\ Finish(r, 500, None)
            /\ UNCHANGED users
       ELSE LET row == NewUser(users, reqs[r].email, reqs[r].name) IN
            /\ users' = users \cup {row}
            /\ reqs' = [reqs EXCEPT ![r].pc = "refreshing", ![r].result = row]
            /\ UNCHANGED sessions
    /\ UNCHANGED <<now, loopBusy>>

(* await db.refresh(db_user); return db_user *)
create_user_return(r) ==
    /\ reqs[r].kind = "create_user"
    /\ reqs[r].pc = "refreshing"
    /\ Finish(r, 200, CHOOSE u \in users : u.id = reqs[r].result.id)
    /\ UNCHANGED <<now, loopBusy, users>>

get_user_with_external_data(r) ==
    /\ CanStart(r, "get_user_with_external_data")
    /\ reqs' = [reqs EXCEPT ![r].pc = "querying"]
    /\ sessions' = get_async_db_enter(sessions, r)
    /\ UNCHANGED <<now, loopBusy, users>>

get_user_with_external_data_user(r) ==
    /\ reqs[r].kind = "get_user_with_external_data"
    /\ reqs[r].pc = "querying"
    /\ LET user == get_user_by_email(users, reqs[r].email) IN
         IF user = MultipleResultsFound THEN Finish(r, 500, None)
         ELSE IF user = None THEN Finish(r, 404, None)
         ELSE /\ reqs' = [reqs EXCEPT ![r].pc = "fetching", ![r].result = user,
                                      ![r].ops = <<StartSleep(NewOp(Urls[1]), now)>>]
              /\ UNCHANGED sessions
    /\ UNCHANGED <<now, loopBusy, users>>

get_user_with_external_data_fetched(r, outcome) ==
    /\ reqs[r].kind = "get_user_with_external_data"
    /\ reqs[r].pc = "fetching"
    /\ LET op == fetch_external_api(reqs[r].ops[1], outcome, 1) IN
         /\ reqs' = [reqs EXCEPT ![r].pc = "done", ![r].ops = <<op>>,
                                 ![r].results = <<op.val>>,
                                 ![r].status = IF op.st = "raised" THEN 500 ELSE 200]
         /\ sessions' = get_async_db_exit(sessions, r, op.st = "raised")
    /\ UNCHANGED <<now, loopBusy, users>>

Finished(r) ==
    /\ reqs[r].pc \in {"done", "failed"}
    /\ reqs[r].bg \in {"none", "finished"}

(* the response has gone out and any background task has ended *)
Release(r) ==
    /\ Finished(r)
    /\ reqs' = [reqs EXCEPT ![r] = IdleReq]
    /\ UNCHANGED <<now, loopBusy, users, sessions>>

(* --------------------------- logical clock ----------------------------- *)
(* work that runs at the current instant, before the clock moves on *)
ThreadDue ==
    \E r \in Reqs :
        \/ reqs[r].pc = "pending" /\ RunsOn(reqs[r].kind) = "thread"
        \/ reqs[r].pc = "sleeping" /\ now >= reqs[r].t0 + reqs[r].sec

LoopDue ==
    /\ LoopFree
    /\ \E r \in Reqs :
        \/ reqs[r].pc = "pending" /\ RunsOn(reqs[r].kind) = "loop"
        \/ /\ reqs[r].pc \in {"awaiting", "gathering"}
           /\ \E i \in DOMAIN reqs[r].ops :
                 /\ reqs[r].ops[i].st = "waiting"
                 /\ now >= OpDue(reqs[r].kind, reqs[r].ops[i])

ResponseDue == \E r \in Reqs : Finished(r)

Advance(limit) ==
    /\ now < limit
    /\ ~ThreadDue /\ ~LoopDue /\ ~ResponseDue
    /\ now' = now + 1
    /\ UNCHANGED <<reqs, loopBusy, users, sessions>>

Tick == Advance(MaxTime)

TickFetch == Advance(MaxFetchTime)

(* ---------------------------- specifications --------------------------- *)
(* the delay, background and performance endpoints on one event loop *)
Next ==
    \/ \E r \in Reqs, s \in 1..MaxSeconds : Arrive(r, "async_delay", s)
    \/ \E r \in Reqs, s \in 1..MaxSeconds : Arrive(r, "sync_delay", s)
    \/ \E r \in Reqs : Arrive(r, "process_data", 0)
    \/ \E r \in Reqs : Arrive(r, "performance_async", 0)
    \/ \E r \in Reqs : Arrive(r, "performance_sync", 0)
    \/ \E r \in Reqs : async_delay(r)
    \/ \E r \in Reqs : sync_delay(r)
    \/ \E r \in Reqs : sync_delay_return(r)
    \/ \E r \in Reqs : process_data(r)
    \/ \E r \in Reqs : background_start(r)
    \/ \E r \in Reqs : simulate_cpu_intensive_task(r)
    \/ \E r \in Reqs : performance_async(r)
    \/ \E r \in Reqs : performance_sync(r)
    \/ \E r \in Reqs, i \in 1..PerfNumOps : simulate_slow_io_operation(r, i)
    \/ \E r \in Reqs : Release(r)
    \/ Tick

Spec == Init /\ [][Next]_vars

(* the concurrent external fetches; a request is issued only while its    *)
(* timeout still falls within the clock's range                           *)
ArriveFetch(r) ==
    /\ now + FetchTimeout <= MaxFetchTime
    /\ Arrive(r, "fetch_external_data", 0)

NextFetch ==
    \/ \E r \in FetchReqs : ArriveFetch(r)
    \/ \E r \in FetchReqs : fetch_external_data(r)
    \/ \E r \in FetchReqs, i \in DOMAIN Urls, o \in Outcomes : fetch_complete(r, i, o)
    \/ \E r \in FetchReqs : Release(r)
    \/ TickFetch

SpecFetch == Init /\ [][NextFetch]_vars

(* the Record Store endpoints *)
NextStore ==
    \/ \E r \in Reqs, e \in Emails : ArriveStore(r, "get_user", e, "none")
    \/ \E r \in Reqs, e \in Emails, n \in Names : ArriveStore(r, "create_user", e, n)
    \/ \E r \in Reqs, e \in Emails :
          ArriveStore(r, "get_user_with_external_data", e, "none")
    \/ \E r \in Reqs : get_user(r)
    \/ \E r \in Reqs : get_user_result(r)
    \/ \E r \in Reqs : create_user(r)
    \/ \E r \in Reqs : create_user_checked(r)
    \/ \E r \in Reqs : create_user_commit(r)
    \/ \E r \in Reqs : create_user_return(r)
    \/ \E r \in Reqs : get_user_with_external_data(r)
    \/ \E r \in Reqs : get_user_with_external_data_user(r)
    \/ \E r \in Reqs, o \in Outcomes : get_user_with_external_data_fetched(r, o)
    \/ \E r \in Reqs : Release(r)

SpecStore == Init /\ [][NextStore]_vars

(* ------------------------------- claims -------------------------------- *)
DoneOf(kind) == {r \in Reqs : reqs[r].kind = kind /\ reqs[r].pc = "done"}

(* C1: with zero scheduling overhead the concurrent run of the N waits of  *)
(* d seconds (performance_async) ends at elapsed time max = d, and the     *)
(* sequential run (performance_sync) at elapsed time sum = N * d; the code *)
(* fixes N = 3 and d = 1, so 1 against 3.                                  *)
C1_ConcurrentMaxSequentialSum ==
    /\ \A r \in DoneOf("performance_async") :
          /\ reqs[r].total_time = SeqMax(PerfDurations)
          /\ reqs[r].total_time = PerfOpSeconds
    /\ \A r \in DoneOf("performance_sync") :
          /\ reqs[r].total_time = SeqSum(PerfDurations)
          /\ reqs[r].total_time = PerfNumOps * PerfOpSeconds

C1_Witness ==
    /\ DoneOf("performance_async") # {}
    /\ DoneOf("performance_sync") # {}

(* C2: the result list of the concurrent run has the length of the input   *)
(* and its i-th element is the result of the i-th operation, whatever the  *)
(* order of completion.                                                    *)
C2_GatherKeepsInputOrder ==
    \A r \in DoneOf("fetch_external_data") :
        /\ Len(reqs[r].results) = Len(Urls)
        /\ \A i \in DOMAIN Urls :
              /\ reqs[r].results[i] = reqs[r].ops[i].val
              /\ reqs[r].results[i].tag = "data" => reqs[r].results[i].body = Urls[i]

C2_Witness ==
    \E r \in DoneOf("fetch_external_data") :
        /\ reqs[r].ops[1].rank = 3 /\ reqs[r].ops[2].rank = 1 /\ reqs[r].ops[3].rank = 2
        /\ \A i \in DOMAIN Urls : reqs[r].results[i] = [tag |-> "data", body |-> Urls[i]]

(* C3: in the sequential run operation i+1 never starts before operation i *)
(* has completed: at most one operation is in progress, and starts and     *)
(* completions alternate in input order.                                   *)
C3_SequentialOneAtATime ==
    \A r \in Reqs : reqs[r].kind = "performance_sync" /\ reqs[r].ops # <<>> =>
        LET ops == reqs[r].ops IN
        /\ Cardinality({i \in DOMAIN ops : ops[i].st = "waiting"}) <= 1
        /\ \A i \in DOMAIN ops : ops[i].st = "done" => ops[i].rank = i
        /\ \A i \in 1..(Len(ops) - 1) :
              ops[i + 1].st # "new" =>
                  /\ ops[i].st = "done"
                  /\ ops[i + 1].t_start >= ops[i].t_end

C3_Witness ==
    \E r \in Reqs :
        /\ reqs[r].kind = "performance_sync"
        /\ reqs[r].pc = "awaiting"
        /\ reqs[r].ops[1].st = "done"
        /\ reqs[r].ops[2].st = "waiting"
        /\ reqs[r].ops[3].st = "new"

(* C4: while a sync_delay request is in its blocking sleep, no other       *)
(* operation of the event loop starts or completes before the sleep ends.  *)
InSleepOf(s, t) == reqs[s].t0 < t /\ t < reqs[s].t0 + reqs[s].sec

C4_SyncDelayBlocksLoop ==
    \A s \in Reqs, q \in Reqs :
        /\ reqs[s].kind = "sync_delay"
        /\ reqs[s].pc \in {"sleeping", "done"}
        /\ q # s
        /\ reqs[q].kind \in {"async_delay", "process_data",
                             "performance_async", "performance_sync"}
        /\ reqs[q].pc \notin {"idle", "pending"}
        => /\ ~InSleepOf(s, reqs[q].t0)
           /\ reqs[q].pc = "done" => ~InSleepOf(s, reqs[q].t_end)

(* C5: the CPU-bound task of process_data is offloaded: it never occupies  *)
(* the event loop, process_data has responded before it runs, and every    *)
(* simulated wait ends exactly at its nominal duration however far the CPU *)
(* task has got.                                                           *)
C5_CpuTaskOffloaded ==
    /\ \A r \in Reqs : reqs[r].bg = "running" => loopBusy # r
    /\ \A r \in Reqs : reqs[r].kind = "process_data" /\ reqs[r].bg # "none" =>
          /\ reqs[r].pc = "done"
          /\ reqs[r].t_end = reqs[r].t0
    /\ \A q \in DoneOf("async_delay") : reqs[q].t_end = reqs[q].t0 + reqs[q].sec

C5_Witness ==
    \E r \in Reqs, q \in DoneOf("async_delay") :
        /\ reqs[r].kind = "process_data"
        /\ reqs[r].bg = "running"
        /\ reqs[r].progress > 0
        /\ reqs[q].t0 <= reqs[r].t0
        /\ reqs[r].t0 < reqs[q].t_end
        /\ now = reqs[q].t_end

(* C6: a create_user whose existence check finds a record with its email   *)
(* (a request issued after a create for that email succeeded) is rejected  *)
(* with 400, inserts nothing, and leaves exactly one record of that email. *)
C6_DuplicateRejected ==
    [][\A r \in Reqs :
          /\ reqs[r].kind = "create_user"
          /\ reqs[r].pc = "checking"
          /\ reqs'[r].pc # "checking"
          /\ \E u \in users : u.email = reqs[r].email
          => /\ reqs'[r].pc = "done"
             /\ reqs'[r].status = 400
             /\ users' = users
             /\ Cardinality({u \in users' : u.email = reqs[r].email}) = 1]_vars

C6_Witness ==
    \E r \in DoneOf("create_user"), q \in DoneOf("create_user") :
        /\ reqs[q].status = 200
        /\ reqs[r].status = 400
        /\ reqs[r].email = reqs[q].email
        /\ Cardinality({u \in users : u.email = reqs[r].email}) = 1

(* C7: after a successful create for e, get_user(e) returns the stored     *)
(* record of email e, whose id was new when it was created; get_user of an *)
(* email never created returns absent (404); lookups never change the      *)
(* store.                                                                  *)
C7_LookupAfterCreate ==
    [][\A r \in Reqs :
          /\ (/\ reqs[r].kind = "get_user"
              /\ reqs[r].pc = "querying"
              /\ reqs'[r].pc = "done")
             => /\ users' = users
                /\ IF \E u \in users : u.email = reqs[r].email
                   THEN /\ reqs'[r].status = 200
                        /\ reqs'[r].result \in users
                        /\ reqs'[r].result.email = reqs[r].email
                   ELSE /\ reqs'[r].status = 404
                        /\ reqs'[r].result = None
          /\ (/\ reqs[r].kind = "create_user"
              /\ reqs[r].pc = "committing"
              /\ reqs'[r].pc = "refreshing")
             => /\ users' = users \cup {reqs'[r].result}
                /\ reqs'[r].result.email = reqs[r].email
                /\ \A u \in users : u.id # reqs'[r].result.id
          /\ (/\ reqs[r].kind = "create_user"
              /\ reqs[r].pc = "refreshing"
              /\ reqs'[r].pc = "done")
             => /\ reqs'[r].status = 200
                /\ reqs'[r].result = reqs[r].result]_vars

C7_Witness ==
    \E r \in DoneOf("get_user"), q \in DoneOf("get_user") :
        /\ reqs[r].status = 200
        /\ reqs[r].result \in users
        /\ reqs[r].result.id = 2
        /\ reqs[r].result.email = reqs[r].email
        /\ reqs[q].status = 404

(* C8: fetch_external_api never raises: a timeout, a connection error or a *)
(* body that is not JSON becomes an error value, so no fetch aborts the    *)
(* aggregation and every sibling completes and gives its own result at its *)
(* own position.                                                           *)
C8_FetchNeverRaises ==
    \A r \in Reqs : reqs[r].kind = "fetch_external_data" =>
        /\ reqs[r].pc # "failed"
        /\ \A i \in DOMAIN reqs[r].ops :
              LET op == reqs[r].ops[i] IN
              /\ op.st \in {"waiting", "done"}
              /\ op.st = "done" =>
                    \/ op.val = [tag |-> "data", body |-> Urls[i]]
                    \/ /\ op.val.tag = "error"
                       /\ op.val.body \in {"JSONDecodeError", "ConnectError",
                                           "ReadTimeout"}
        /\ reqs[r].pc = "done" =>
              /\ reqs[r].status = 200
              /\ DOMAIN reqs[r].results = DOMAIN Urls
              /\ \A i \in DOMAIN Urls : reqs[r].ops[i].st = "done"

C8_Witness ==
    \E r \in DoneOf("fetch_external_data") :
        /\ reqs[r].results[1] = [tag |-> "error", body |-> "ReadTimeout"]
        /\ reqs[r].results[2] = [tag |-> "data", body |-> Urls[2]]
        /\ reqs[r].results[3] = [tag |-> "error", body |-> "JSONDecodeError"]

(* C9: a request that has finished, with 200, 404, 400 or a fault, holds   *)
(* no session: the open sessions are those of the requests in progress,    *)
(* and none is open once every request has completed.                      *)
C9_SessionsReleased ==
    /\ \A r \in Reqs : reqs[r].pc \in {"idle", "pending", "done", "failed"}
                       => r \notin sessions
    /\ (\A r \in Reqs : reqs[r].pc \in {"idle", "done", "failed"})
       => Cardinality(sessions) = 0

C9_Witness ==
    \E r \in Reqs, q \in Reqs :
        /\ reqs[r].pc = "done" /\ reqs[r].status = 500
        /\ reqs[q].pc = "done" /\ reqs[q].status = 200
        /\ sessions = {}

(* C10: however concurrent create_user requests for one email interleave,  *)
(* the store never holds two records of that email.                        *)
C10_AtMostOnePerEmail ==
    \A e \in Emails : Cardinality({u \in users : u.email = e}) <= 1

C10_Witness ==
    \E r \in DoneOf("create_user"), q \in DoneOf("create_user") :
        /\ reqs[r].email = reqs[q].email
        /\ reqs[r].status = 200
        /\ reqs[q].status = 500
        /\ Cardinality({u \in users : u.email = reqs[r].email}) = 1
====
